---- MODULE Spec2Model ----
(***************************************************************************)
(* PyGoo ObjectNode (src/pygoo/objectnode.py): a graph node with literal   *)
(* properties, mirrored links to other nodes and a cache of the classes    *)
(* it is a valid instance of.  The graph store, AbstractNode and utils are *)
(* not part of the sources; what the node needs of them is modelled from   *)
(* the written specification and marked as such.                           *)
(***************************************************************************)
EXTENDS Integers, Sequences, FiniteSets, TLC

VARIABLES
    lit,        \* lit[n][name]: literal slot of node n (NoLit when absent)
    edges,      \* edges[n][name]: ordered targets of n's directed edges 'name'
    linked,     \* links asked of the graph and not unlinked: <<a, name, b, mirror>>
    classes,    \* classes[n]: classification cache of node n
    registry,   \* ontology._classes
    dynamic,    \* graph._dynamic
    last,       \* the last call: what was called on which node, and how it ended
    nops        \* number of calls made

vars == <<lit, edges, linked, classes, registry, dynamic, last, nops>>

-----------------------------------------------------------------------------
(* Bounds *)

MaxOps == 3
MaxLen == 2
MaxPath == 2
MaxProps == 2

Nodes == {"n1", "n2", "n3"}
NoNode == "none"

(* Property names written by callers, and the names mirrors appear under. *)
PropNames == {"title", "movie", "author"}
MirrorNames == {"comments"}
NoName == ""

isOf(name) ==
    CASE name = "title" -> "isTitleOf"
      [] name = "movie" -> "isMovieOf"
      [] name = "author" -> "isAuthorOf"

Names == PropNames \cup MirrorNames \cup {isOf(p) : p \in PropNames}

-----------------------------------------------------------------------------
(* Values *)

NoLit == [t |-> "NoneType", v |-> "None"]
LitVals == { [t |-> "int", v |-> "0"],
             [t |-> "int", v |-> "23"],
             [t |-> "unicode", v |-> "s"] }

Truthy(l) == l.v \notin {"0", "", "None", "False"}
Iterable(l) == l.t = "unicode"

Range(s) == { s[i] : i \in 1..Len(s) }

SeqsUpTo(S, k) == UNION { [1..m -> S] : m \in 0..k }

Val(k, n, name, s, l) == [k |-> k, n |-> n, name |-> name, s |-> s, l |-> l]
NodeVal(n) == Val("node", n, NoName, <<>>, NoLit)
ListVal(s) == Val("list", NoNode, NoName, s, NoLit)
GenVal(n, name) == Val("gen", n, name, <<>>, NoLit)
LitVal(l) == Val("lit", NoNode, NoName, <<>>, l)
OtherVal == Val("other", NoNode, NoName, <<>>, NoLit)
NoneVal == Val("none", NoNode, NoName, <<>>, NoLit)
RaisedVal == Val("raised", NoNode, NoName, <<>>, NoLit)

(* The nodes a value refers to; a lazy sequence lists them when it is read. *)
Members(e, value) ==
    CASE value.k = "node" -> {value.n}
      [] value.k = "list" -> Range(value.s)
      [] value.k = "gen" -> Range(e[value.n][value.name])
      [] OTHER -> {}

multiIsInstance(value) == value.k \in {"node", "list", "gen"}
isLiteral(value) == value.k = "lit"

-----------------------------------------------------------------------------
(* The graph store.  A node maps each property name to one entry, a       *)
(* literal or a list of directed edges; writing one kind overwrites an     *)
(* entry of the other kind.  A link is a directed edge in each direction.  *)
(* A store g is [lit, e, l]: literals, edges and the links asked for.      *)

addDirectedEdge(g, a, name, b) ==
    [g EXCEPT !.lit[a][name] = NoLit,
              !.e[a][name] = IF b \in Range(@) THEN @ ELSE Append(@, b)]

removeDirectedEdge(g, a, name, b) ==
    [g EXCEPT !.e[a][name] = SelectSeq(@, LAMBDA t : t # b)]

graphAddLink(g, a, name, b, mirror) ==
    [addDirectedEdge(addDirectedEdge(g, a, name, b), b, mirror, a)
        EXCEPT !.l = @ \cup {<<a, name, b, mirror>>, <<b, mirror, a, name>>}]

graphRemoveLink(g, a, name, b, mirror) ==
    [removeDirectedEdge(removeDirectedEdge(g, a, name, b), b, mirror, a)
        EXCEPT !.l = @ \ {<<a, name, b, mirror>>, <<b, mirror, a, name>>}]

setLiteral(g, n, name, value) ==
    [g EXCEPT !.lit[n][name] = value, !.e[n][name] = <<>>]

getLiteral(g, n, name) ==
    IF g.lit[n][name] # NoLit THEN [err |-> "", val |-> LitVal(g.lit[n][name])]
    ELSE [err |-> "KeyError", val |-> NoneVal]

outgoingEdgeEndpoints(g, n, name) ==
    IF g.e[n][name] # <<>> THEN [err |-> "", val |-> GenVal(n, name)]
    ELSE [err |-> "KeyError", val |-> NoneVal]

literalKeys(g, n) == { name \in Names : g.lit[n][name] # NoLit }
edgeKeys(g, n) == { name \in Names : g.e[n][name] # <<>> }

-----------------------------------------------------------------------------
(* Reading properties *)

getattr(g, n, name) ==
    IF getLiteral(g, n, name).err = "" THEN getLiteral(g, n, name)
    ELSE IF outgoingEdgeEndpoints(g, n, name).err = "" THEN outgoingEdgeEndpoints(g, n, name)
    ELSE [err |-> "AttributeError", val |-> NoneVal]

(* get without its except clause: the AttributeError reaches the caller. *)
getUncaught(g, n, name) ==
    IF getattr(g, n, name).err = "AttributeError" THEN RaisedVal
    ELSE getattr(g, n, name).val

get(g, n, name) ==
    IF getattr(g, n, name).err = "AttributeError" THEN NoneVal
    ELSE getattr(g, n, name).val

keys(g, n) == literalKeys(g, n) \cup edgeKeys(g, n)

(* toresult(list): a list of one element stands for that element. *)
toresult(s) == IF Len(s) = 1 THEN NodeVal(s[1]) ELSE ListVal(s)

(* The walk without toresult: a lazy sequence is carried on as a list. *)
RECURSIVE walkUncollapsed(_, _, _)
walkUncollapsed(g, result, propList) ==
    IF propList = <<>> THEN result
    ELSE IF result.k # "node" THEN RaisedVal
    ELSE LET found == get(g, result.n, Head(propList))
         IN walkUncollapsed(g,
                            IF found.k = "gen" THEN ListVal(g.e[result.n][Head(propList)])
                            ELSE found,
                            Tail(propList))

(* result = result.get(prop) for each prop in turn.  Only a node has a     *)
(* get(): on None, a literal or a list the attribute lookup of 'get'       *)
(* raises AttributeError.                                                  *)
RECURSIVE walk(_, _, _)
walk(g, result, propList) ==
    IF propList = <<>> THEN result
    ELSE IF result.k # "node" THEN RaisedVal
    ELSE LET found == get(g, result.n, Head(propList))
         IN walk(g,
                 IF found.k = "gen" THEN toresult(g.e[result.n][Head(propList)])
                 ELSE found,
                 Tail(propList))

getChainedProperties(g, n, propList) == walk(g, NodeVal(n), propList)

-----------------------------------------------------------------------------
(* Writing links *)

RECURSIVE addEach(_, _, _, _, _)
addEach(g, n, name, s, mirror) ==
    IF s = <<>> THEN g
    ELSE addEach(graphAddLink(g, n, name, Head(s), mirror), n, name, Tail(s), mirror)

(* A lazy sequence is read while the links are added: it lists what the    *)
(* property holds at that moment.                                          *)
RECURSIVE addLazy(_, _, _, _, _, _, _)
addLazy(g, n, name, m, mname, i, mirror) ==
    IF i > Len(g.e[m][mname]) THEN g
    ELSE addLazy(graphAddLink(g, n, name, g.e[m][mname][i], mirror),
                 n, name, m, mname, i + 1, mirror)

(* addLink that links the first node only. *)
First(s) == IF s = <<>> THEN <<>> ELSE <<Head(s)>>

addLinkSingle(g, n, name, otherNode, mirror) ==
    CASE otherNode.k = "list" -> addEach(g, n, name, First(otherNode.s), mirror)
      [] otherNode.k = "gen" ->
            addEach(g, n, name, First(g.e[otherNode.n][otherNode.name]), mirror)
      [] OTHER -> graphAddLink(g, n, name, otherNode.n, mirror)

addLink(g, n, name, otherNode, mirror) ==
    CASE otherNode.k = "list" -> addEach(g, n, name, otherNode.s, mirror)
      [] otherNode.k = "gen" -> addLazy(g, n, name, otherNode.n, otherNode.name, 1, mirror)
      [] OTHER -> graphAddLink(g, n, name, otherNode.n, mirror)

RECURSIVE removeEach(_, _, _, _, _)
removeEach(g, n, name, s, mirror) ==
    IF s = <<>> THEN g
    ELSE removeEach(graphRemoveLink(g, n, name, Head(s), mirror), n, name, Tail(s), mirror)

(* list(self.get(name) or []): the links to remove.  A literal that is     *)
(* true and not iterable makes list() raise TypeError; the characters of a *)
(* string are no nodes, and removing their links removes nothing.          *)
oldLinksFails(g, n, name) ==
    LET old == get(g, n, name)
    IN old.k = "lit" /\ Truthy(old.l) /\ ~Iterable(old.l)

oldLinks(g, n, name) ==
    LET old == get(g, n, name)
    IN IF old.k = "gen" THEN g.e[n][name] ELSE <<>>

(* Variants of setLink: without the removal, with the removal after the   *)
(* addition, and with the removal done on every node of the graph.       *)
setLinkKeepsOld(g, n, name, otherNode, mirror) ==
    addLink(g, n, name, otherNode, mirror)

setLinkRemovesLast(g, n, name, otherNode, mirror) ==
    removeEach(addLink(g, n, name, otherNode, mirror),
               n, name, oldLinks(g, n, name), mirror)

RECURSIVE removeOfAll(_, _, _, _)
removeOfAll(g, ns, name, mirror) ==
    IF ns = {} THEN g
    ELSE LET m == CHOOSE m \in ns : TRUE
         IN removeOfAll(removeEach(g, m, name, oldLinks(g, m, name), mirror),
                        ns \ {m}, name, mirror)

setLinkOfAll(g, n, name, otherNode, mirror) ==
    addLink(removeOfAll(g, Nodes, name, mirror), n, name, otherNode, mirror)

setLink(g, n, name, otherNode, mirror) ==
    addLink(removeEach(g, n, name, oldLinks(g, n, name), mirror),
            n, name, otherNode, mirror)

-----------------------------------------------------------------------------
(* Classification *)

ClassNames == {"Movie", "Comment"}

schema(cls) ==
    IF cls = "Movie" THEN [title |-> "unicode", year |-> "int"]
    ELSE [movie |-> "Movie", author |-> "unicode", text |-> "unicode", date |-> "int"]

valid(cls) == IF cls = "Movie" THEN <<"title">> ELSE <<"movie", "author">>

(* node.isinstance(cls): cls is in the node's cache of valid classes. *)
isinstance(c, n, cls) == cls \in c[n]

(* A check that asks every target of a link for its class. *)
hasValidPropertiesOfAll(g, c, n, cls, props) ==
    \A i \in 1..Len(props) :
        LET prop == props[i]
            value == get(g, n, prop)
        IN IF value.k = "gen"
           THEN \A t \in Range(g.e[n][prop]) : isinstance(c, t, schema(cls)[prop])
           ELSE value.l.t = schema(cls)[prop]

hasValidProperties(g, c, n, cls, props) ==
    \A i \in 1..Len(props) :
        LET prop == props[i]
            value == get(g, n, prop)
        IN IF value.k = "gen"
           THEN isinstance(c, g.e[n][prop][1], schema(cls)[prop])
           ELSE value.l.t = schema(cls)[prop]

isValidInstance(g, c, n, cls) == hasValidProperties(g, c, n, cls, valid(cls))

contains(g, n, name) == name \in keys(g, n)

(* isinstance(value, type) for the types of literals: a bool is an int.    *)
isinstanceOf(l, type) == l.t = type \/ (l.t = "bool" /\ type = "int")

multiIsInstanceOf(value, type) ==
    IF value.k = "lit" THEN isinstanceOf(value.l, type) ELSE FALSE

(* The check without its 'continue' for links: a lazy sequence is no       *)
(* instance of the declared type.                                          *)
invalidOfLinksToo(g, n, cls, prop) ==
    IF ~contains(g, n, prop) THEN <<[prop |-> prop, why |-> "is missing"]>>
    ELSE IF ~multiIsInstanceOf(getattr(g, n, prop).val, schema(cls)[prop])
    THEN <<[prop |-> prop, why |-> "is of type"]>>
    ELSE <<>>

invalidOf(g, n, cls, prop) ==
    IF ~contains(g, n, prop) THEN <<[prop |-> prop, why |-> "is missing"]>>
    ELSE IF getattr(g, n, prop).val.k = "gen" THEN <<>>
    ELSE IF ~multiIsInstanceOf(getattr(g, n, prop).val, schema(cls)[prop])
    THEN <<[prop |-> prop, why |-> "is of type"]>>
    ELSE <<>>

RECURSIVE invalidList(_, _, _, _)
invalidList(g, n, cls, props) ==
    IF props = <<>> THEN <<>>
    ELSE invalidOf(g, n, cls, Head(props)) \o invalidList(g, n, cls, Tail(props))

(* '\n'.join(invalid): the empty string for no message, and otherwise the  *)
(* messages, which are not empty.                                          *)
join(invalid) == IF invalid = <<>> THEN "" ELSE invalid

invalidProperties(g, n, cls) == join(invalidList(g, n, cls, valid(cls)))

(* The classes are added to the emptied cache one by one, in the order in  *)
(* which the registry lists them.                                          *)
RECURSIVE addValid(_, _, _, _)
addValid(g, c, n, order) ==
    IF order = <<>> THEN c
    ELSE addValid(g,
                  IF isValidInstance(g, c, n, Head(order))
                  THEN [c EXCEPT ![n] = @ \cup {Head(order)}] ELSE c,
                  n, Tail(order))

Orders(S) == { s \in [1..Cardinality(S) -> S] : Range(s) = S }

(* A classification pass that does not ask for the mode of the graph. *)
updateValidClassesAnyMode(g, c, n, order) ==
    addValid(g, [c EXCEPT ![n] = {}], n, order)

updateValidClasses(g, c, n, order) ==
    IF dynamic THEN addValid(g, [c EXCEPT ![n] = {}], n, order)
    ELSE c

(* The class hierarchy: Movie derives from Video, Video and Comment from   *)
(* BaseObject, the base of every class.                                    *)
BaseObject == "BaseObject"

Classes == {BaseObject, "Video", "Movie", "Comment"}

bases(cls) ==
    CASE cls = "Movie" -> {"Video"}
      [] cls = "Video" -> {BaseObject}
      [] cls = "Comment" -> {BaseObject}
      [] cls = BaseObject -> {}

RECURSIVE issubclass(_, _)
issubclass(c, cls) == c = cls \/ \E b \in bases(c) : issubclass(b, cls)

(* The last class of the cache wins, whatever the candidate is. *)
RECURSIVE lastOf(_, _)
lastOf(cls, cached) ==
    IF cached = <<>> THEN cls
    ELSE lastOf(IF issubclass(Head(cached), BaseObject) THEN Head(cached) ELSE cls,
                Tail(cached))

virtualClassOfLast(cached) == lastOf(BaseObject, cached)

(* The first class of the cache wins: the candidate is left only while it  *)
(* is the base class.                                                      *)
RECURSIVE firstOf(_, _)
firstOf(cls, cached) ==
    IF cached = <<>> THEN cls
    ELSE firstOf(IF cls = BaseObject /\ issubclass(Head(cached), cls)
                 THEN Head(cached) ELSE cls,
                 Tail(cached))

virtualClassOfFirst(cached) == firstOf(BaseObject, cached)

(* The loop of virtualClass over the cached classes, in the order in which *)
(* the cache lists them.                                                   *)
RECURSIVE specialize(_, _)
specialize(cls, cached) ==
    IF cached = <<>> THEN cls
    ELSE specialize(IF issubclass(Head(cached), cls) THEN Head(cached) ELSE cls,
                    Tail(cached))

virtualClass(cached) == specialize(BaseObject, cached)

-----------------------------------------------------------------------------
(* Calls *)

NoMirror == "None"

reverseNameOf(name, mirror) == IF mirror = NoMirror THEN isOf(name) ELSE mirror

Graph == [lit |-> lit, e |-> edges, l |-> linked]

Call(op, n, name, value, mirror, err, res) ==
    [op |-> op, n |-> n, name |-> name, kind |-> value.k,
     rev |-> IF multiIsInstance(value) THEN reverseNameOf(name, mirror) ELSE NoName,
     x |-> Members(edges, value),
     old |-> IF n \in Nodes /\ name \in Names THEN Range(edges[n][name]) ELSE {},
     own |-> (value.k = "gen" /\ value.n = n /\ value.name = name),
     err |-> err, res |-> res]

Init ==
    /\ lit = [n \in Nodes |-> [name \in Names |-> NoLit]]
    /\ edges = [n \in Nodes |-> [name \in Names |-> <<>>]]
    /\ linked = {}
    /\ classes = [n \in Nodes |-> {}]
    /\ registry \in SUBSET ClassNames
    /\ dynamic \in BOOLEAN
    /\ last = Call("init", NoNode, NoName, NoneVal, NoMirror, "", NoneVal)
    /\ nops = 0

(* A rejection that comes too late, after the value was stored. *)
RaiseAfterWrite(op, n, name, value, mirror) ==
    /\ last' = Call(op, n, name, value, mirror, "TypeError", NoneVal)
    /\ lit' = [lit EXCEPT ![n][name] = [t |-> "object", v |-> "?"]]
    /\ UNCHANGED <<edges, linked, classes>>

Raise(op, n, name, value, mirror) ==
    /\ last' = Call(op, n, name, value, mirror, "TypeError", NoneVal)
    /\ UNCHANGED <<lit, edges, linked, classes>>

Written(g, n, validate, order) ==
    /\ lit' = g.lit
    /\ edges' = g.e
    /\ linked' = g.l
    /\ classes' = IF validate THEN updateValidClasses(g, classes, n, order) ELSE classes

Set(n, name, value, mirror, validate, order) ==
    /\ nops < MaxOps
    /\ nops' = nops + 1
    /\ UNCHANGED <<registry, dynamic>>
    /\ IF multiIsInstance(value)
       THEN IF oldLinksFails(Graph, n, name)
            THEN Raise("set", n, name, value, mirror)
            ELSE /\ Written(setLink(Graph, n, name, value, reverseNameOf(name, mirror)),
                            n, validate, order)
                 /\ last' = Call("set", n, name, value, mirror, "", NoneVal)
       ELSE IF isLiteral(value)
       THEN /\ Written(setLiteral(Graph, n, name, value.l), n, validate, order)
            /\ last' = Call("set", n, name, value, mirror, "", NoneVal)
       ELSE Raise("set", n, name, value, mirror)

AppendLink(n, name, value, mirror, validate, order) ==
    /\ nops < MaxOps
    /\ nops' = nops + 1
    /\ UNCHANGED <<registry, dynamic>>
    /\ IF multiIsInstance(value)
       THEN /\ Written(addLink(Graph, n, name, value, reverseNameOf(name, mirror)),
                       n, validate, order)
            /\ last' = Call("append", n, name, value, mirror, "", NoneVal)
       ELSE Raise("append", n, name, value, mirror)

Get(n, name) ==
    /\ nops < MaxOps
    /\ nops' = nops + 1
    /\ last' = Call("get", n, name, NoneVal, NoMirror,
                     IF get(Graph, n, name) = RaisedVal THEN "AttributeError" ELSE "",
                     get(Graph, n, name))
    /\ UNCHANGED <<lit, edges, linked, classes, registry, dynamic>>

UpdateValidClasses(n, order) ==
    /\ nops < MaxOps
    /\ nops' = nops + 1
    /\ classes' = updateValidClasses(Graph, classes, n, order)
    /\ last' = Call("updateValidClasses", n, NoName, NoneVal, NoMirror, "", NoneVal)
    /\ UNCHANGED <<lit, edges, linked, registry, dynamic>>

Register(cls) ==
    /\ nops < MaxOps
    /\ cls \notin registry
    /\ nops' = nops + 1
    /\ registry' = registry \cup {cls}
    /\ last' = Call("register", NoNode, cls, NoneVal, NoMirror, "", NoneVal)
    /\ UNCHANGED <<lit, edges, linked, classes, dynamic>>

(* Bulk writes.  A run st is [g, c, err, done, seen]: the store and the    *)
(* caches so far, the error raised if any, the number of writes applied    *)
(* and, for each classification pass, the number of writes it found        *)
(* applied.  An item of props is [name, value, mirror].                    *)
Run(g, c) == [g |-> g, c |-> c, err |-> "", done |-> 0, seen |-> <<>>]

validated(st, n, validate, order) ==
    IF validate
    THEN [st EXCEPT !.c = updateValidClasses(st.g, st.c, n, order),
                    !.seen = Append(@, st.done)]
    ELSE st

set(st, n, name, value, mirror, validate, order) ==
    IF multiIsInstance(value)
    THEN IF oldLinksFails(st.g, n, name)
         THEN [st EXCEPT !.err = "TypeError"]
         ELSE validated([st EXCEPT !.g = setLink(st.g, n, name, value,
                                                  reverseNameOf(name, mirror)),
                                   !.done = @ + 1],
                        n, validate, order)
    ELSE IF isLiteral(value)
    THEN validated([st EXCEPT !.g = setLiteral(st.g, n, name, value.l), !.done = @ + 1],
                   n, validate, order)
    ELSE [st EXCEPT !.err = "TypeError"]

(* One turn of the loop over props; an exception ends the loop and the     *)
(* call.                                                                   *)
setNext(st, n, item, validate, order) ==
    IF st.err # "" THEN st
    ELSE set(st, n, item.name, item.value, item.mirror, validate, order)

(* The run after the loop, as the one element of a set of runs. *)
RECURSIVE setAll(_, _, _, _, _)
setAll(runs, n, props, validate, order) ==
    IF props = <<>> THEN runs
    ELSE setAll({ setNext(st, n, Head(props), validate, order) : st \in runs },
                n, Tail(props), validate, order)

(* A bulk write that lets every set() validate. *)
updateValidating(st, n, props, order) ==
    CHOOSE run \in
        { IF written.err # "" THEN written ELSE validated(written, n, TRUE, order) :
            written \in setAll({st}, n, props, TRUE, order) } : TRUE

(* for ... in props: self.set(..., validate = False), then                 *)
(* self.updateValidClasses().                                              *)
update(st, n, props, order) ==
    CHOOSE run \in
        { IF written.err # "" THEN written ELSE validated(written, n, TRUE, order) :
            written \in setAll({st}, n, props, FALSE, order) } : TRUE

Max(a, b) == IF a >= b THEN a ELSE b

Bulk(op, n, props, order) ==
    /\ nops + Max(1, Len(props)) <= MaxOps
    /\ nops' = nops + Max(1, Len(props))
    /\ \E st \in {update(Run(Graph, classes), n, props, order)} :
          /\ lit' = st.g.lit
          /\ edges' = st.g.e
          /\ linked' = st.g.l
          /\ classes' = st.c
          /\ last' = [props |-> props, seen |-> st.seen, done |-> st.done] @@
                        Call(op, n, NoName, NoneVal, NoMirror, st.err, NoneVal)
    /\ UNCHANGED <<registry, dynamic>>

(* update(props): the items of a dict, each name once, default mirrors. *)
Update(n, props, order) ==
    /\ \A i \in 1..Len(props) : props[i].mirror = NoMirror
    /\ Bulk("update", n, props, order)

(* ObjectNode(graph, props): the node is new, nothing refers to it yet. *)
New(n) ==
    /\ keys(Graph, n) = {}
    /\ classes[n] = {}

Construct(n, props, order) ==
    /\ New(n)
    /\ Bulk("__init__", n, props, order)

GetChainedProperties(n, propList) ==
    /\ nops < MaxOps
    /\ nops' = nops + 1
    /\ last' = [path |-> propList] @@
                  Call("getChainedProperties", n, NoName, NoneVal, NoMirror,
                       IF getChainedProperties(Graph, n, propList) = RaisedVal
                       THEN "AttributeError" ELSE "",
                       getChainedProperties(Graph, n, propList))
    /\ UNCHANGED <<lit, edges, linked, classes, registry, dynamic>>

InvalidProperties(n, cls) ==
    /\ nops < MaxOps
    /\ nops' = nops + 1
    /\ last' = [cls |-> cls, invalid |-> invalidProperties(Graph, n, cls)] @@
                  Call("invalidProperties", n, NoName, NoneVal, NoMirror, "", NoneVal)
    /\ UNCHANGED <<lit, edges, linked, classes, registry, dynamic>>

VirtualClass(n, cached) ==
    /\ nops < MaxOps
    /\ nops' = nops + 1
    /\ Range(cached) = classes[n]
    /\ last' = [cached |-> cached, cls |-> virtualClass(cached)] @@
                  Call("virtualClass", n, NoName, NoneVal, NoMirror, "", NoneVal)
    /\ UNCHANGED <<lit, edges, linked, classes, registry, dynamic>>

-----------------------------------------------------------------------------
(* Inputs *)

Mirrors == {NoMirror} \cup MirrorNames

(* The nodes whose properties the callers write; every node can be a target. *)
Writers == {"n1", "n2"}

(* A lazy sequence exists only for a property that get() finds as links;   *)
(* the callers pass the sequences of the property they write, their own or *)
(* another node's.                                                         *)
GenInputs(names) ==
    { v \in { GenVal(m, x) : m \in Nodes, x \in names } :
        get(Graph, v.n, v.name).k = "gen" }

(* Lists of at most MaxLen targets; a list may name a node twice. *)
ListTargets == {"n2", "n3"}
ListInputs == { ListVal(s) : s \in SeqsUpTo(ListTargets, MaxLen) }

NodeInputs == { NodeVal(t) : t \in Nodes }

LinkInputs(names) == NodeInputs \cup ListInputs \cup GenInputs(names)

(* Links under one property, with explicit and synthesized mirror names. *)
InitLinks == Init /\ registry = {} /\ dynamic

NextLinks ==
    \/ \E n \in Writers, value \in LinkInputs({"movie"}), mirror \in Mirrors :
          Set(n, "movie", value, mirror, TRUE, <<>>)
    \/ \E n \in Writers, value \in NodeInputs \cup GenInputs({"movie"}), mirror \in Mirrors :
          AppendLink(n, "movie", value, mirror, TRUE, <<>>)

Spec == InitLinks /\ [][NextLinks]_vars

(* Literals, links and unsupported values under one property, and reads. *)
InitProps == Init /\ registry = {} /\ dynamic

PropInputs ==
    NodeInputs \cup { ListVal(<<>>) } \cup { LitVal(l) : l \in LitVals } \cup { OtherVal }

NextProps ==
    \/ \E n \in Writers, value \in PropInputs :
          Set(n, "title", value, NoMirror, TRUE, <<>>)
    \/ \E n \in Writers, value \in PropInputs :
          AppendLink(n, "title", value, NoMirror, TRUE, <<>>)
    \/ \E n \in Nodes, name \in {"title", isOf("title")} : Get(n, name)

SpecProps == InitProps /\ [][NextProps]_vars

(* The properties the classes of the ontology require, and reclassification. *)
ClassInputs ==
    { NodeVal(t) : t \in Writers }
    \cup { LitVal([t |-> "unicode", v |-> "s"]), LitVal([t |-> "int", v |-> "23"]) }

NextClasses ==
    \/ \E n \in Writers, name \in PropNames, value \in ClassInputs,
          order \in Orders(registry) :
          Set(n, name, value, NoMirror, TRUE, order)
    \/ \E n \in Writers, value \in { NodeVal(t) : t \in Writers },
          order \in Orders(registry) :
          AppendLink(n, "movie", value, NoMirror, TRUE, order)
    \/ \E n \in Writers, order \in Orders(registry) : UpdateValidClasses(n, order)
    \/ \E cls \in ClassNames : Register(cls)

SpecClasses == Init /\ [][NextClasses]_vars

(* Writes that link distinct nodes, with both classes registered from the  *)
(* start, and links that reach a node as the mirror of another's write.    *)
InitCaches == Init /\ registry = ClassNames

NextCaches ==
    \/ \E n \in Writers, name \in PropNames, order \in Orders(registry) :
          \E value \in ClassInputs \ {NodeVal(n)} :
             Set(n, name, value, NoMirror, TRUE, order)
    \/ \E n \in Writers, order \in Orders(registry) :
          \E value \in { NodeVal(t) : t \in Writers \ {n} } :
             AppendLink(n, isOf("movie"), value, "movie", TRUE, order)
    \/ \E n \in Writers, order \in Orders(registry) : UpdateValidClasses(n, order)

SpecCaches == InitCaches /\ [][NextCaches]_vars

(* Chains of links and literals, and chained lookups of at most MaxPath    *)
(* names.                                                                  *)
ChainNames == {"movie", "author"}

ChainInputs ==
    NodeInputs \cup { ListVal(<<"n2", "n3">>), LitVal([t |-> "unicode", v |-> "s"]) }

InitChains == Init /\ registry = {} /\ dynamic

NextChains ==
    \/ \E n \in Writers, name \in ChainNames, value \in ChainInputs :
          Set(n, name, value, NoMirror, TRUE, <<>>)
    \/ \E n \in Nodes, propList \in SeqsUpTo(ChainNames, MaxPath) :
          GetChainedProperties(n, propList)

SpecChains == InitChains /\ [][NextChains]_vars

(* Bulk writes of the properties the classes require, in dynamic mode with *)
(* both classes registered: well and badly typed values for each property, *)
(* and an explicit mirror name for 'movie'.                                *)
Item(name, value, mirror) == [name |-> name, value |-> value, mirror |-> mirror]

Items ==
    { Item("title", LitVal([t |-> "unicode", v |-> "s"]), NoMirror),
      Item("title", LitVal([t |-> "int", v |-> "23"]), NoMirror),
      Item("movie", NodeVal("n1"), NoMirror),
      Item("movie", NodeVal("n1"), "comments"),
      Item("movie", ListVal(<<"n1", "n2">>), NoMirror),
      Item("movie", LitVal([t |-> "unicode", v |-> "s"]), NoMirror),
      Item("author", LitVal([t |-> "unicode", v |-> "s"]), NoMirror),
      Item("author", LitVal([t |-> "int", v |-> "23"]), NoMirror) }

PropLists ==
    { props \in SeqsUpTo(Items, MaxProps) :
        \A i, j \in 1..Len(props) : props[i].name = props[j].name => i = j }

InitBulk == Init /\ registry = ClassNames /\ dynamic

(* One node is constructed from a list, the other is updated. *)
NextBulk ==
    \/ \E props \in PropLists, order \in Orders(registry) :
          Update("n2", props, order)
    \/ \E props \in PropLists, order \in Orders(registry) :
          Construct("n1", props, order)

SpecBulk == InitBulk /\ [][NextBulk]_vars

(* Diagnostics: a Movie with a title exists, another node is updated, and  *)
(* the report on a node for a class is asked for.                          *)
InitDiag ==
    /\ lit = [n \in Nodes |-> [name \in Names |->
                 IF n = "n1" /\ name = "title"
                 THEN [t |-> "unicode", v |-> "s"] ELSE NoLit]]
    /\ edges = [n \in Nodes |-> [name \in Names |-> <<>>]]
    /\ linked = {}
    /\ classes = [n \in Nodes |-> IF n = "n1" THEN {"Movie"} ELSE {}]
    /\ registry = ClassNames
    /\ dynamic = TRUE
    /\ last = Call("init", NoNode, NoName, NoneVal, NoMirror, "", NoneVal)
    /\ nops = 0

NextDiag ==
    \/ \E props \in PropLists, order \in Orders(registry) :
          Update("n2", props, order)
    \/ \E n \in Nodes, cls \in ClassNames : InvalidProperties(n, cls)

SpecDiag == InitDiag /\ [][NextDiag]_vars

(* Virtual classes: the caches of two nodes hold any classes of the        *)
(* hierarchy, and a call lists the cache of its node in any order.         *)
InitVirtual ==
    /\ lit = [n \in Nodes |-> [name \in Names |-> NoLit]]
    /\ edges = [n \in Nodes |-> [name \in Names |-> <<>>]]
    /\ linked = {}
    /\ classes \in { c \in [Nodes -> SUBSET Classes] : c["n3"] = {} }
    /\ registry = ClassNames
    /\ dynamic = FALSE
    /\ last = Call("init", NoNode, NoName, NoneVal, NoMirror, "", NoneVal)
    /\ nops = 0

NextVirtual ==
    \E n \in Nodes, cached \in SeqsUpTo(Classes, Cardinality(Classes)) :
        /\ Len(cached) = Cardinality(classes[n])
        /\ VirtualClass(n, cached)

SpecVirtual == InitVirtual /\ [][NextVirtual]_vars

(* Static mode: the classes of a node are given at its construction, the   *)
(* registry holds both classes, and the node is then written.              *)
InitStatic ==
    /\ lit = [n \in Nodes |-> [name \in Names |-> NoLit]]
    /\ edges = [n \in Nodes |-> [name \in Names |-> <<>>]]
    /\ linked = {}
    /\ classes \in { c \in [Nodes -> SUBSET ClassNames] :
                      c["n1"] \subseteq {"Movie"} /\ "Comment" \in c["n2"] /\ c["n3"] = {} }
    /\ registry = ClassNames
    /\ dynamic = FALSE
    /\ last = Call("init", NoNode, NoName, NoneVal, NoMirror, "", NoneVal)
    /\ nops = 0

StaticInputs == { NodeVal("n1"), LitVal([t |-> "unicode", v |-> "s"]) }

(* In static mode the registry is not read: one order stands for all. *)
StaticOrder == <<"Movie", "Comment">>

NextStatic ==
    \/ \E n \in Writers, name \in {"title", "movie"}, value \in StaticInputs :
          Set(n, name, value, NoMirror, TRUE, StaticOrder)
    \/ \E n \in Writers :
          AppendLink(n, "movie", NodeVal("n2"), NoMirror, TRUE, StaticOrder)
    \/ \E props \in PropLists : Update("n2", props, StaticOrder)
    \/ \E n \in Writers : UpdateValidClasses(n, StaticOrder)

SpecStatic == InitStatic /\ [][NextStatic]_vars

-----------------------------------------------------------------------------
(* Properties *)

Targets(e, n, name) == Range(e[n][name])

Count(s, x) == Cardinality({ i \in 1..Len(s) : s[i] = x })

LinkKinds == {"node", "list", "gen"}

SetLinked(c) == c.op = "set" /\ c.err = "" /\ c.kind \in LinkKinds

Appended(c) == c.op = "append" /\ c.err = "" /\ c.kind \in LinkKinds

(* C1: bidirectional edge invariant.  For every link (A, name, B, mirror)  *)
(* asked of the graph, the forward edge (A, name, B) exists if and only if *)
(* the mirrored edge (B, mirror, A) exists, and every edge found by name   *)
(* lookup belongs to such a link.                                          *)
C1_BidirectionalEdges ==
    /\ \A l \in linked :
          (l[3] \in Targets(edges, l[1], l[2])) <=> (l[1] \in Targets(edges, l[3], l[4]))
    /\ \A a \in Nodes, name \in Names :
          \A b \in Targets(edges, a, name) :
             \E mirror \in Names : <<a, name, b, mirror>> \in linked

Yielded(c) == IF c.own THEN {} ELSE c.x

SameEdges(e1, e2) ==
    \A m \in Nodes, name \in Names :
        /\ Targets(e1, m, name) = Targets(e2, m, name)
        /\ Len(e1[m][name]) = Len(e2[m][name])

SameTargets(c) ==
    { value \in NodeInputs \cup ListInputs :
        value.k = c.kind /\ Members(edges, value) = c.x }

C3_SetIdempotent ==
    (SetLinked(last) /\ last.kind \in {"node", "list"}) =>
       \A value \in SameTargets(last) :
          SameEdges(edges,
                    setLink(Graph, last.n, last.name, value, last.rev).e)

C3_Witness ==
    /\ SetLinked(last)
    /\ last.kind = "list"
    /\ Cardinality(last.x) = 2
    /\ last.old # {} /\ last.old # last.x
    /\ \E t \in last.x : Len(edges[t][last.rev]) = 2

(* C4: literal/link mutual exclusion.  No name of a node is both a literal *)
(* key and a link key; writing a literal to a name that holds links        *)
(* removes the links and their mirrors; writing a node to a name that      *)
(* holds a literal removes the literal and installs the link without error.*)
C4_LiteralLinkExclusive ==
    [][/\ \A n \in Nodes, name \in Names :
             ~(name \in literalKeys(Graph', n) /\ name \in edgeKeys(Graph', n))
       /\ (last'.op = "set" /\ last'.kind = "lit"
              /\ last'.name \in edgeKeys(Graph, last'.n))
            => /\ last'.err = ""
               /\ edges'[last'.n][last'.name] = <<>>
               /\ \A t \in Targets(edges, last'.n, last'.name) :
                     last'.n \notin Targets(edges', t, isOf(last'.name))
       /\ (last'.op = "set" /\ last'.kind = "node"
              /\ last'.name \in literalKeys(Graph, last'.n))
            => /\ last'.err = ""
               /\ lit'[last'.n][last'.name] = NoLit
               /\ last'.x \subseteq Targets(edges', last'.n, last'.name)]_vars

(* C5: replacing N's links only touches N's own edges.  After N.set(A, X)  *)
(* every target N dropped no longer lists N under the mirror attribute but *)
(* still lists every other node that links to it, and every other node's   *)
(* forward edges under A are as before.                                    *)
C5_SetTouchesOwnEdgesOnly ==
    [][SetLinked(last') =>
          LET n == last'.n
              name == last'.name
              dropped == Targets(edges, n, name) \ Targets(edges', n, name)
          IN /\ \A t \in dropped : n \notin Targets(edges', t, last'.rev)
             /\ \A t \in dropped, m \in Nodes \ {n}, mirror \in Names \ {name} :
                   (t \in Targets(edges, m, name) /\ m \in Targets(edges, t, mirror))
                      => m \in Targets(edges', t, mirror)
             /\ \A m \in Nodes \ {n} : edges'[m][name] = edges[m][name]]_vars

C5_Witness ==
    /\ SetLinked(last)
    /\ \E m \in Writers \ {last.n}, t \in last.old \ Targets(edges, last.n, last.name) :
          /\ t \in Targets(edges, m, last.name)
          /\ Targets(edges, t, last.rev) = {m}

(* C6: classification cache freshness.  In dynamic mode the cache of every *)
(* node equals the set of registered classes the node is a valid instance  *)
(* of.                                                                     *)
ValidClasses(n) == { cls \in registry : isValidInstance(Graph, classes, n, cls) }

C6_CachesFresh == dynamic => \A n \in Nodes : classes[n] = ValidClasses(n)

(* C7: no spurious or missing classes on the written node.  In dynamic     *)
(* mode, right after updateValidClasses() on N, and so after every set and *)
(* append on N, the cache of N is exactly the set of registered classes    *)
(* for which N.isValidInstance holds.                                      *)
C7_WrittenNodeExact ==
    (dynamic /\ last.op \in {"set", "append", "updateValidClasses"} /\ last.err = "")
       => classes[last.n] = ValidClasses(last.n)

(* C8: get(name) never raises.  It returns the literal if name is a        *)
(* literal key, otherwise the lazy sequence over the linked nodes if name  *)
(* is a link key, otherwise None; and it changes nothing.                  *)
C8_GetNeverRaises ==
    [][last'.op = "get" =>
          LET n == last'.n
              name == last'.name
          IN /\ last'.err = ""
             /\ name \in literalKeys(Graph, n) => last'.res = LitVal(lit[n][name])
             /\ (name \notin literalKeys(Graph, n) /\ name \in edgeKeys(Graph, n))
                   => last'.res = GenVal(n, name)
             /\ name \notin keys(Graph, n) => last'.res = NoneVal
             /\ UNCHANGED <<lit, edges, linked, classes, registry, dynamic>>]_vars

C8_Witness ==
    /\ last.op = "get"
    /\ last.res = NoneVal
    /\ \E n \in Nodes \ {last.n} : last.name \in keys(Graph, n)

(* C9: unsupported values are rejected without effect.  set() of a value   *)
(* that is neither a literal nor node references, and append() of a value  *)
(* that is not node references, raise TypeError and leave the literals,    *)
(* every edge and the classification caches as they were.                  *)
Unsupported(c) ==
    \/ c.op = "set" /\ c.kind = "other"
    \/ c.op = "append" /\ c.kind \in {"other", "lit"}

C9_UnsupportedRejected ==
    [][Unsupported(last') =>
          /\ last'.err = "TypeError"
          /\ UNCHANGED <<lit, edges, linked, classes>>]_vars

C9_Witness ==
    /\ last.op = "append"
    /\ last.kind = "lit"
    /\ last.err = "TypeError"
    /\ edges[last.n][last.name] # <<>>
    /\ lit[last.n][last.name] = NoLit

(* C10: append adds rather than replaces.  After N.append(A, X, mirror)    *)
(* N's targets under A are those it had together with the members of X,    *)
(* every edge and mirror that existed is still present, and each member of *)
(* X lists N under the mirror attribute.                                   *)
C10_AppendAdds ==
    [][Appended(last') =>
          /\ Targets(edges', last'.n, last'.name)
                = Targets(edges, last'.n, last'.name) \cup last'.x
          /\ \A m \in Nodes, name \in Names :
                Targets(edges, m, name) \subseteq Targets(edges', m, name)
          /\ \A t \in last'.x : last'.n \in Targets(edges', t, last'.rev)]_vars

C10_Witness ==
    /\ Appended(last)
    /\ Cardinality(last.old) = 2
    /\ last.x \ last.old # {}
    /\ \E t \in last.x : Len(edges[t][last.rev]) = 2

Chained(c) == c.op = "getChainedProperties"

(* C11: chained lookup reports missing attributes.  When any step of the   *)
(* path, the last one included, yields None, getChainedProperties raises   *)
(* the missing-attribute error; it never returns None.                     *)
C11_ChainedLookupMissing ==
    [][Chained(last') =>
          /\ (\E i \in 1..Len(last'.path) :
                 getChainedProperties(Graph, last'.n, SubSeq(last'.path, 1, i)) = NoneVal)
               => last'.err = "AttributeError"
          /\ last'.res # NoneVal]_vars

(* C12: chained property collapse.  Over a chain A -> B -> C of singleton  *)
(* links the lookup returns the node C itself; when the last step of the   *)
(* path is a link with two or more targets the whole collection is         *)
(* returned; a path that continues past such a step fails.                 *)
FanOut(g, n, name) == Len(g.e[n][name]) >= 2

C12_ChainedCollapse ==
    [][Chained(last') =>
          LET a == last'.n
              path == last'.path
          IN /\ \A b, c \in Nodes :
                   (Len(path) = 2 /\ edges[a][path[1]] = <<b>> /\ edges[b][path[2]] = <<c>>)
                      => last'.res = NodeVal(c)
             /\ \A i \in 1..Len(path) :
                   LET at == getChainedProperties(Graph, a, SubSeq(path, 1, i - 1))
                   IN (at.k = "node" /\ FanOut(Graph, at.n, path[i]))
                        => IF i = Len(path)
                           THEN last'.res = ListVal(edges[at.n][path[i]])
                           ELSE last'.err = "AttributeError"]_vars

C12_Witness ==
    /\ Chained(last)
    /\ Len(last.path) = 2
    /\ \E b, c \in Nodes :
          /\ Cardinality({last.n, b, c}) = 3
          /\ edges[last.n][last.path[1]] = <<b>>
          /\ edges[b][last.path[2]] = <<c>>
          /\ last.res = NodeVal(c)

BulkWritten(c) == c.op \in {"update", "__init__"} /\ c.err = ""

(* C13: bulk writes classify once, at the end.  When the construction of a *)
(* node from a list of (name, value, mirror) triples, or update(props),    *)
(* returns, every write was applied, the one classification pass of the    *)
(* call ran after the last write, the properties hold the written values   *)
(* and the node's cache is what a classification pass gives in the final   *)
(* state.                                                                  *)
C13_BulkClassifiesOnce ==
    [][BulkWritten(last') =>
          LET n == last'.n
              props == last'.props
          IN /\ last'.done = Len(props)
             /\ last'.seen = <<Len(props)>>
             /\ \A i \in 1..Len(props) :
                   IF isLiteral(props[i].value)
                   THEN lit'[n][props[i].name] = props[i].value.l
                   ELSE Targets(edges', n, props[i].name) = Members(edges, props[i].value)
             /\ \E order \in Orders(registry) :
                   classes' = updateValidClasses(Graph', classes, n, order)]_vars

C13_Witness ==
    /\ BulkWritten(last)
    /\ Len(last.props) = 2
    /\ last.seen = <<2>>
    /\ classes[last.n] = {"Comment"}
    /\ \E m \in Nodes \ {last.n} : "Movie" \in classes[m]

(* C14: static mode freezes classification.  In static mode                *)
(* updateValidClasses() leaves the cache untouched, and no set, append or  *)
(* update changes the cache of any node: it stays as it was at             *)
(* construction.                                                           *)
C14_StaticFreezes == [][~dynamic => classes' = classes]_vars

C14_Witness ==
    /\ ~dynamic
    /\ last.op \in {"set", "update"} /\ last.err = ""
    /\ lit[last.n]["title"].t = "unicode"
    /\ classes[last.n] = {"Comment"}

(* The property holds links: a lookup finds no literal, and edges.         *)
LinkValued(n, prop) == lit[n][prop] = NoLit /\ edges[n][prop] # <<>>

Passes(n, cls, prop) ==
    IF LinkValued(n, prop)
    THEN \/ edges[n][prop] = <<>>
         \/ schema(cls)[prop] \in classes[edges[n][prop][1]]
    ELSE lit[n][prop].t = schema(cls)[prop]

VirtualCalled(c) == c.op = "virtualClass"

IsChain(cache) == \A c, d \in cache : issubclass(c, d) \/ issubclass(d, c)

(* C16: virtualClass() on a chain.  With an empty cache the result is the  *)
(* base class of every class; when the cached classes form one inheritance *)
(* chain the result is the most derived class of the chain, in whatever    *)
(* order the cache lists its classes.                                      *)
C16_VirtualClassOnChain ==
    VirtualCalled(last) =>
        LET cache == Range(last.cached)
        IN /\ cache = {} => last.cls = BaseObject
           /\ (cache # {} /\ IsChain(cache)) =>
                 /\ last.cls \in cache
                 /\ \A c \in cache : issubclass(last.cls, c)

C16_Witness ==
    /\ VirtualCalled(last)
    /\ last.cached = <<"Movie", "Video", BaseObject>>
    /\ last.cls = "Movie"

(* C18: virtualClass() returns a maximal element.  For every cache, chains *)
(* or not, and every order in which it is listed, the result is the base   *)
(* class or a class of the cache, and no class of the cache is a proper    *)
(* subclass of the result.                                                 *)
C18_VirtualClassMaximal ==
    VirtualCalled(last) =>
        LET cache == Range(last.cached)
        IN /\ last.cls = BaseObject \/ last.cls \in cache
           /\ \A c \in cache : issubclass(c, last.cls) => c = last.cls

C18_Witness ==
    /\ VirtualCalled(last)
    /\ last.cached = <<"Comment", "Video", "Movie">>
    /\ last.cls = "Comment"

Diagnosed(c) == c.op = "invalidProperties"

(* C17: invalidProperties is at least as permissive as isValidInstance.    *)
(* For every node and class, when isValidInstance accepts the node the     *)
(* report of invalidProperties is the empty string.                        *)
C17_DiagnosticPermissive ==
    Diagnosed(last) =>
        (isValidInstance(Graph, classes, last.n, last.cls) => last.invalid = "")

C17_Witness ==
    /\ Diagnosed(last)
    /\ last.cls = "Comment"
    /\ isValidInstance(Graph, classes, last.n, "Comment")
    /\ LinkValued(last.n, "movie")
    /\ last.invalid = ""

(* The call sets N's property to the lazy sequence of that same property,  *)
(* with the mirror name under which every target lists N.                  *)
SelfAssigned(c, e) ==
    /\ SetLinked(c)
    /\ c.own
    /\ \A t \in Targets(e, c.n, c.name) : c.n \in Targets(e, t, c.rev)

(* C19: self-assignment through the lazy sequence preserves links.  After  *)
(* N.set(A, N.get(A)) with the same mirror name, N's targets under A and   *)
(* the mirror entries of every node are what they were before the call.    *)
C19_SelfAssignPreserves ==
    [][SelfAssigned(last', edges) =>
          /\ Targets(edges', last'.n, last'.name) = Targets(edges, last'.n, last'.name)
          /\ \A t \in Nodes :
                Targets(edges', t, last'.rev) = Targets(edges, t, last'.rev)]_vars

====
